---- MODULE Spec2Model ----
(***************************************************************************)
(* A model of the homelab-monitoring collector: the local spool            *)
(* (storage.write_to_spool), the flush engine (storage.flush_spool), the   *)
(* tail of collector.run_collector that drives both, and the scheduler     *)
(* (scheduler.tick / safe_run / main).                                     *)
(***************************************************************************)
EXTENDS Integers, Sequences, FiniteSets, TLC

VARIABLES
    \* ---- environment of the storage layer
    clock,        \* utc_now(): [day, sec]
    connStr,      \* AZURE_STORAGE_CONNECTION_STRING: "" | "bad" | "good"
    azureUp,      \* whether the remote store currently accepts calls
    outages,      \* number of remote outages so far
    unlinkFaults, \* number of injected local-delete failures so far
    dirs,         \* existing <root>/<blob_path>.parts directories
    files,        \* part files on disk: [dir, name, data]
    blobs,        \* remote objects: blob path -> [kind, blocks]
    nextRec,      \* identity of the next record collected
    usedUids,     \* uuid4 values already drawn
    \* ---- one run_collector invocation per worker thread
    pc, blob_path, records, cur, parts_dirs, parts, idx, data,
    flushed, failed, ret, runs,
    \* ---- history of each invocation (what it did, in order)
    written, trace, prevTrace,
    \* ---- the scheduler process (scheduler.main)
    now,          \* time.time(), counted in half seconds
    configs,      \* the documents of <configs-dir>/*.yaml: file name -> document
    last_runs,    \* main's dict: file name -> time of the last dispatch
    tickPc,       \* where the main thread is: "scan", "eval", "stamp", "sleep", "raised"
    todo,         \* the files the for loop of tick still has to visit
    queue,        \* the pool's work queue: submitted, not yet started safe_run calls
    running,      \* per file, the safe_run calls executing on a worker
    reported,     \* per file, whether safe_run has printed "ERROR running"
    \* ---- history of the scheduler
    marked,       \* position in the queue of one submission that is followed
    fresh,        \* the submission whose timestamp is not written yet
    \* ---- one call of ConfigContext.resolve_str and of resolve_dict
    text,         \* the string to resolve, a sequence of characters
    base_context, \* self.base_context: the job's collect block
    extra_ctx,    \* the runtime context passed by the caller
    strict,       \* the mode
    str_result,   \* what resolve_str(text, extra_ctx, strict) came to
    dict_result,  \* what resolve_dict(DocOf(text), extra_ctx, strict) came to
    \* ---- run_collector in loop mode, lines 120-167
    id_field,     \* collect.id_field of the job
    items,        \* the list found under list_json_path
    item_i,       \* the position of the for loop in items
    fetched,      \* records: the positions of the items whose detail was fetched
    requests,     \* the client.get calls so far: <<position of the item, url>>
    collectPc     \* "idle", "list", "list_failed", "loop", "collected", "raised"

envVars   == <<clock, connStr, azureUp, outages, unlinkFaults>>
diskVars  == <<dirs, files>>
localVars == <<blob_path, records, cur, parts_dirs, parts, idx, data,
               flushed, failed, ret, runs>>
histVars  == <<written, trace, prevTrace>>
storeVars == <<envVars, diskVars, blobs, nextRec, usedUids, pc, localVars, histVars>>

schedVars == <<now, configs, last_runs, tickPc, todo, queue, running, reported,
               marked, fresh>>

resolveVars == <<text, base_context, extra_ctx, strict, str_result, dict_result>>
loopVars    == <<id_field, items, item_i, fetched, requests, collectPc>>
collVars    == <<resolveVars, loopVars>>

vars == <<storeVars, schedVars, collVars>>

----------------------------------------------------------------------------
\* Bounds of the model.
MaxClock   == 1    \* clock ticks (a second, or a day) per behaviour
MaxRecords == 2    \* records collected per behaviour
MaxFaults  == 1    \* injected faults (remote outages, local-delete failures)
RunsCap    == 2    \* runs per worker
MaxTime    == 4    \* half seconds the scheduler's clock advances per behaviour
MaxQueue   == 2    \* submissions waiting in the pool's work queue

\* ThreadPoolExecutor(max_workers=5)
PoolSize == 5

Procs == {1, 2}
UIDs  == 1..MaxRecords
None  == "None"

\* no part file
NoName == [day |-> 0, sec |-> 0, uid |-> 0]

Min(a, b) == IF a < b THEN a ELSE b

\* what a run's flush_spool call came to: not yet "none", the pair it returned,
\* or "raised" when the run ended in an exception before the call
Result(st, fl, fa) == [st |-> st, flushed |-> fl, failed |-> fa]

\* dict.get(k, default)
Get(d, k, default) == IF k \in DOMAIN d THEN d[k] ELSE default

\* Python truthiness of a string-or-None config value
Truthy(v) == v # None /\ v # ""

\* a or b
Or(a, b) == IF Truthy(a) THEN a ELSE b

----------------------------------------------------------------------------
\* Job configurations (the YAML documents after lenient resolution).
CfgPveA == [source |-> "pve", entity |-> "node",
            collect |-> [node |-> "hl1"]]
CfgPveB == [source |-> "pve", entity |-> "node_hl1",
            storage |-> [dataset |-> "node"],
            collect |-> [mode |-> "loop"]]
CfgUnifi == [source |-> "unifi", entity |-> "wan",
             storage |-> [system |-> "net", dataset |-> "wan"],
             collect |-> [mode |-> "single"]]
Cfgs == {CfgPveA, CfgPveB, CfgUnifi}

\* utc_now().strftime("%Y-%m-%d")
DateStr(day) == "d" \o ToString(day)

\* storage.build_bronze_path
build_bronze_path(cfg, dt) ==
    LET storage   == Get(cfg, "storage", <<>>)
        prefix    == Get(storage, "bronze_prefix", "bronze")
        system    == Or(Get(storage, "system", None), Get(cfg, "source", None))
        dataset   == Or(Get(storage, "dataset", None), Get(cfg, "entity", None))
        entity    == Get(cfg, "entity", None)
        unique_id == Get(Get(cfg, "collect", <<>>), "node", None)
        filename  == IF Truthy(unique_id)
                     THEN entity \o "_" \o unique_id \o "_" \o dt \o ".jsonl"
                     ELSE entity \o "_" \o dt \o ".jsonl"
    IN  prefix \o "/" \o system \o "/" \o dataset \o "/dt=" \o dt \o "/" \o filename

Paths == {build_bronze_path(c, DateStr(d)) : c \in Cfgs, d \in 0..MaxClock}

----------------------------------------------------------------------------
\* Part-file names: "<%Y%m%dT%H%M%S>_<uuid4 hex>.jsonl.part".  The timestamp has
\* second precision; names compare as strings, i.e. by (day, sec, uid).
NameLess(a, b) ==
    \/ a.day < b.day
    \/ a.day = b.day /\ a.sec < b.sec
    \/ a.day = b.day /\ a.sec = b.sec /\ a.uid < b.uid

RECURSIVE SortedNames(_)
\* sorted([...]) of a set of names
SortedNames(S) ==
    IF S = {} THEN <<>>
    ELSE LET m == CHOOSE x \in S : \A y \in S \ {x} : NameLess(x, y)
         IN  <<m>> \o SortedNames(S \ {m})

FilesIn(d)     == {f \in files : f.dir = d}
NamesIn(d)     == {f.name : f \in FilesIn(d)}
FileAt(d, n)   == {f \in files : f.dir = d /\ f.name = n}

RECURSIVE Reverse(_)
Reverse(q) == IF q = <<>> THEN <<>> ELSE Append(Reverse(Tail(q)), Head(q))

\* mutant of ListParts: the listing is walked newest first
ListPartsReversed(d) == Reverse(SortedNames(NamesIn(d)))

\* sorted([p for p in parts_dir.glob("*.jsonl.part") if p.is_file()])
ListParts(d) == SortedNames(NamesIn(d))

----------------------------------------------------------------------------
\* The scheduler's view of a job definition: load_yaml's result, of which tick
\* and should_run read only the schedule block.  Time and intervals are counted
\* in half seconds, so that a fractional interval_seconds can be written.

\* last_runs.get(p_str) when the file was never dispatched
NoTs == -1

\* YAML scalars found under schedule.interval_seconds
Absent   == [type |-> "absent", halves |-> 0]
Num(h)   == [type |-> "num", halves |-> h]
Word     == [type |-> "str", halves |-> 0]     \* a non-numeric string

\* a document: empty (or unreadable: load_yaml returns {}), or a mapping whose
\* schedule key is absent, null, or a mapping
Doc(e, s, i) == [empty |-> e, schedule |-> s, interval |-> i]

DocEmpty        == Doc(TRUE, "absent", Absent)
DocNoSchedule   == Doc(FALSE, "absent", Absent)       \* no schedule block
DocWhole        == Doc(FALSE, "dict", Num(2))         \* interval_seconds: 1
DocFraction     == Doc(FALSE, "dict", Num(3))         \* interval_seconds: 1.5
DocNullSchedule == Doc(FALSE, "null", Absent)         \* "schedule:" with no value
DocWordInterval == Doc(FALSE, "dict", Word)           \* interval_seconds: hourly

Docs == {DocEmpty, DocNoSchedule, DocWhole, DocFraction, DocNullSchedule,
         DocWordInterval}

\* sorted(configs_dir.glob("*.yaml"))
ConfigFiles == <<"a.yaml", "b.yaml">>
FileNames   == {ConfigFiles[i] : i \in 1..Len(ConfigFiles)}

\* int(interval) of a non-negative number of half seconds: whole seconds,
\* the fraction dropped
int(h) == 2 * (h \div 2)

\* not interval
NotInterval(v) == v.type = "absent" \/ (v.type = "num" /\ v.halves = 0)

\* mutant of should_run: the comparison is strict
should_run_strict(cfg, last_run_ts, t) ==
    IF cfg.schedule = "null" THEN "raise"
    ELSE LET interval == IF cfg.schedule = "absent" THEN Absent ELSE cfg.interval
         IN  IF NotInterval(interval) THEN "True"
             ELSE IF last_run_ts = NoTs THEN "True"
             ELSE IF interval.type = "str" THEN "raise"
             ELSE IF (t - last_run_ts) > int(interval.halves) THEN "True" ELSE "False"

\* scheduler.should_run, with t the value time.time() returns: "True", "False",
\* or "raise" (sched.get on None, int() of a non-numeric string)
should_run(cfg, last_run_ts, t) ==
    IF cfg.schedule = "null" THEN "raise"
    ELSE LET interval == IF cfg.schedule = "absent" THEN Absent ELSE cfg.interval
         IN  IF NotInterval(interval) THEN "True"
             ELSE IF last_run_ts = NoTs THEN "True"
             ELSE IF interval.type = "str" THEN "raise"
             ELSE IF (t - last_run_ts) >= int(interval.halves) THEN "True" ELSE "False"

----------------------------------------------------------------------------
\* collector.ConfigContext: strings are sequences of characters, a dict is the
\* sequence of its <<key, value>> items in insertion order.

MaxText  == 3    \* characters of a string to resolve
MaxItems == 3    \* items listed by a loop-mode job

EmptyDict == <<>>

Keys(dct) == {dct[i][1] : i \in 1..Len(dct)}

\* where the item of key k sits in dct
Lookup(dct, k) == CHOOSE i \in 1..Len(dct) : dct[i][1] = k

\* dct[k] = v
SetItem(dct, k, v) ==
    IF k \in Keys(dct)
    THEN [i \in 1..Len(dct) |-> IF dct[i][1] = k THEN <<k, v>> ELSE dct[i]]
    ELSE Append(dct, <<k, v>>)

RECURSIVE Update(_, _)
\* dct.update(other)
Update(dct, other) ==
    IF other = <<>> THEN dct
    ELSE Update(SetItem(dct, Head(other)[1], Head(other)[2]), Tail(other))

\* c.upper()
UpperChar(c) ==
    CASE c = "a" -> "A" [] c = "b" -> "B" [] c = "i" -> "I" [] c = "d" -> "D"
      [] c = "x" -> "X" [] c = "y" -> "Y" [] OTHER -> c

\* str(v).upper(), k.upper()
Upper(str) == [i \in 1..Len(str) |-> UpperChar(str[i])]

RECURSIVE UpperItems(_)
\* {k.upper(): str(v).upper() for k, v in full_ctx.items()}
UpperItems(dct) ==
    IF dct = <<>> THEN <<>>
    ELSE SetItem(UpperItems(SubSeq(dct, 1, Len(dct) - 1)),
                 Upper(dct[Len(dct)][1]), Upper(dct[Len(dct)][2]))

\* the outcome of a formatting call: the output, or the exception raised
Ok(out)        == [st |-> "ok", out |-> out, key |-> <<>>]
Raised(e, key) == [st |-> e, out |-> <<>>, key |-> key]

\* the output so far, followed by what formatting the rest comes to
Emit(out, r) == IF r.st = "ok" THEN [r EXCEPT !.out = out \o @] ELSE r

RECURSIVE vformat(_, _, _)
\* str.format(**kwargs) and, with safe, SafeFormatter().format(text, **kwargs),
\* for texts without the characters . [ ! : and without numeric field names.
\* The text is consumed from the left, and the first problem met is raised:
\* "{{" and "}}" are literal braces; a single "}", a "{" that is never closed
\* and a "{" inside a field raise ValueError; the empty field "{}" is positional
\* and raises IndexError; a named field is looked up in kwargs, and a missing
\* name raises KeyError -- or, with safe, get_value returns "{" + key + "}".
vformat(str, kwargs, safe) ==
    IF str = <<>> THEN Ok(<<>>)
    ELSE LET c    == Head(str)
             rest == Tail(str)
         IN  IF c = "}"
             THEN IF rest # <<>> /\ Head(rest) = "}"
                  THEN Emit(<<"}">>, vformat(Tail(rest), kwargs, safe))
                  ELSE Raised("ValueError", <<>>)
             ELSE IF c = "{"
             THEN IF rest = <<>> THEN Raised("ValueError", <<>>)
                  ELSE IF Head(rest) = "{"
                  THEN Emit(<<"{">>, vformat(Tail(rest), kwargs, safe))
                  ELSE LET braces == {j \in 1..Len(rest) : rest[j] \in {"{", "}"}}
                       IN  IF braces = {} THEN Raised("ValueError", <<>>)
                           ELSE LET j     == CHOOSE m \in braces : \A n \in braces : m <= n
                                    key   == SubSeq(rest, 1, j - 1)
                                    after == SubSeq(rest, j + 1, Len(rest))
                                IN  IF rest[j] = "{" THEN Raised("ValueError", <<>>)
                                    ELSE IF key = <<>> THEN Raised("IndexError", <<>>)
                                    ELSE IF key \in Keys(kwargs)
                                    THEN Emit(kwargs[Lookup(kwargs, key)][2],
                                              vformat(after, kwargs, safe))
                                    ELSE IF safe
                                    THEN Emit(<<"{">> \o key \o <<"}">>,
                                              vformat(after, kwargs, safe))
                                    ELSE Raised("KeyError", key)
             ELSE Emit(<<c>>, vformat(rest, kwargs, safe))

\* mutant of full_ctx: the uppercased items are computed from the base context,
\* before the runtime context is merged in
full_ctx_upper_of_base(base, extra) ==
    LET merged == IF extra # EmptyDict THEN Update(base, extra) ELSE base
    IN  Update(merged, UpperItems(base))

\* resolve_str, lines 44-53: base context, runtime context, uppercased items
full_ctx(base, extra) ==
    LET merged == IF extra # EmptyDict THEN Update(base, extra) ELSE base
    IN  Update(merged, UpperItems(merged))

\* ConfigContext.resolve_str(text, extra_ctx, strict) of a string, for a
\* context object with the base context base
resolve_str(base, str, extra, strct) ==
    IF strct
    THEN LET r == vformat(str, full_ctx(base, extra), FALSE)
         IN  IF r.st = "KeyError" THEN Raised("CollectorError", r.key) ELSE r
    ELSE vformat(str, full_ctx(base, extra), TRUE)

\* Documents (parsed YAML): a leaf is a string or a number, an inner node is a
\* sequence or a mapping (the sequence of its <<key, node>> items).
StrLeaf(str)    == [t |-> "str", v |-> str]
IntLeaf(n)      == [t |-> "int", v |-> n]
ListNode(nodes) == [t |-> "list", v |-> nodes]
DictNode(kv)    == [t |-> "dict", v |-> kv]

\* node[k] of a mapping
Item(node, k) == node.v[Lookup(node.v, k)][2]

RECURSIVE resolve_items_shallow(_, _, _, _)
resolve_items_shallow(base, kv, extra, strct) ==
    IF kv = <<>> THEN Ok(<<>>)
    ELSE LET k == Head(kv)[1]
             v == Head(kv)[2]
             r == IF v.t = "str"
                  THEN LET x == resolve_str(base, v.v, extra, strct)
                       IN  IF x.st = "ok" THEN Ok(StrLeaf(x.out)) ELSE x
                  ELSE Ok(v)
         IN  IF r.st # "ok" THEN r
             ELSE LET rest == resolve_items_shallow(base, Tail(kv), extra, strct)
                  IN  IF rest.st = "ok" THEN Ok(<<<<k, r.out>>>> \o rest.out) ELSE rest

\* mutant of resolve_dict: nested mappings are passed through, not resolved
resolve_dict_shallow(base, d, extra, strct) ==
    LET x == resolve_items_shallow(base, d.v, extra, strct)
    IN  IF x.st = "ok" THEN Ok(DictNode(x.out)) ELSE x

RECURSIVE resolve_items(_, _, _, _)
\* resolve_dict, lines 68-74: the loop over d.items(); the first exception of a
\* resolve_str call ends it
resolve_items(base, kv, extra, strct) ==
    IF kv = <<>> THEN Ok(<<>>)
    ELSE LET k == Head(kv)[1]
             v == Head(kv)[2]
             r == IF v.t = "str"
                  THEN LET x == resolve_str(base, v.v, extra, strct)
                       IN  IF x.st = "ok" THEN Ok(StrLeaf(x.out)) ELSE x
                  ELSE IF v.t = "dict"
                  THEN LET x == resolve_items(base, v.v, extra, strct)
                       IN  IF x.st = "ok" THEN Ok(DictNode(x.out)) ELSE x
                  ELSE Ok(v)
         IN  IF r.st # "ok" THEN r
             ELSE LET rest == resolve_items(base, Tail(kv), extra, strct)
                  IN  IF rest.st = "ok" THEN Ok(<<<<k, r.out>>>> \o rest.out) ELSE rest

\* ConfigContext.resolve_dict(d, extra_ctx, strict)
resolve_dict(base, d, extra, strct) ==
    LET x == resolve_items(base, d.v, extra, strct)
    IN  IF x.st = "ok" THEN Ok(DictNode(x.out)) ELSE x

\* a job definition whose string leaves all hold the string str: directly in
\* the document, in nested mappings, and inside a sequence
DocOf(str) ==
    DictNode(<< <<"endpoint", StrLeaf(str)>>,
                <<"schema_version", IntLeaf(1)>>,
                <<"collect", DictNode(<< <<"node", StrLeaf(str)>>,
                                         <<"retries", IntLeaf(3)>>,
                                         <<"http", DictNode(<< <<"path", StrLeaf(str)>> >>)>> >>)>>,
                <<"tags", ListNode(<<StrLeaf(str), IntLeaf(1)>>)>> >>)

\* the inputs of the calls
TextChars     == {"{", "}", "a", "b", "A", "/"}
Texts         == UNION {[1..n -> TextChars] : n \in 0..MaxText}
BaseContexts  == {EmptyDict,
                  << <<<<"a">>, <<"x">>>> >>,
                  << <<<<"a">>, <<"x">>>>, <<<<"A">>, <<"y">>>> >>,
                  << <<<<"A">>, <<"y">>>>, <<<<"a">>, <<"x">>>> >>}
ExtraContexts == {EmptyDict,
                  << <<<<"a">>, <<"y">>>> >>,
                  << <<<<"b">>, <<"y">>>> >>}

\* Loop mode: the items of the list, and the job's item_endpoint_template.
Id == <<"i", "d">>

\* /{id}/{b}
ItemTemplate == <<"/", "{", "i", "d", "}", "/", "{", "b", "}">>

\* a number, written in decimal digits
NumLeaf(digits) == [t |-> "num", v |-> digits]

ItemGood   == DictNode(<< <<Id, StrLeaf(<<"x">>)>>, <<<<"b">>, StrLeaf(<<"y">>)>> >>)
ItemNoB    == DictNode(<< <<Id, StrLeaf(<<"x">>)>> >>)           \* lacks the key b
ItemNoId   == DictNode(<< <<<<"b">>, StrLeaf(<<"y">>)>> >>)      \* lacks the id
ItemNull   == [t |-> "null", v |-> <<>>]                         \* null: not a mapping
ItemZero   == DictNode(<< <<Id, NumLeaf(<<"0">>)>>, <<<<"b">>, StrLeaf(<<"y">>)>> >>)  \* id: 0
ItemKinds  == {ItemGood, ItemNoB, ItemNoId, ItemNull, ItemZero}

\* the values of collect.id_field: the default "id", and "b"
IdFields == {Id, <<"b">>}

\* the job's list_endpoint
ListEndpoint == <<"/", "a">>

ItemLists  == UNION {[1..n -> ItemKinds] : n \in 0..MaxItems}

\* item.get(field) of a mapping: the value, or None
ItemId(item, field) == IF field \in Keys(item.v) THEN Item(item, field) ELSE ItemNull

\* not v, for a string, a number or None
Falsy(leaf) ==
    \/ leaf.t = "null"
    \/ leaf.t = "str" /\ leaf.v = <<>>
    \/ leaf.t = "num" /\ leaf.v = <<"0">>

\* lines 157-160: {"id": item_id} updated with {k: str(v) for k, v in item.items()}
item_ctx(item, field) ==
    Update(<< <<Id, ItemId(item, field).v>> >>,
           [i \in 1..Len(item.v) |-> <<item.v[i][1], item.v[i][2].v>>])

----------------------------------------------------------------------------
\* the storage layer before the first run: an empty spool, no remote object
StoreInit ==
    /\ clock = [day |-> 0, sec |-> 0]
    /\ azureUp = TRUE
    /\ outages = 0
    /\ unlinkFaults = 0
    /\ dirs = {}
    /\ files = {}
    /\ blobs = [b \in Paths |-> [kind |-> "none", blocks |-> <<>>]]
    /\ nextRec = 1
    /\ usedUids = {}
    /\ pc = [p \in Procs |-> "idle"]
    /\ blob_path = [p \in Procs |-> None]
    /\ records = [p \in Procs |-> <<>>]
    /\ cur = [p \in Procs |-> NoName]
    /\ parts_dirs = [p \in Procs |-> <<>>]
    /\ parts = [p \in Procs |-> <<>>]
    /\ idx = [p \in Procs |-> 0]
    /\ data = [p \in Procs |-> <<>>]
    /\ flushed = [p \in Procs |-> 0]
    /\ failed = [p \in Procs |-> 0]
    /\ ret = [p \in Procs |-> Result("none", 0, 0)]
    /\ runs = [p \in Procs |-> 0]
    /\ written = [p \in Procs |-> <<>>]
    /\ trace = [p \in Procs |-> <<>>]
    /\ prevTrace = [p \in Procs |-> <<>>]

\* scheduler.main before the first tick, with the job definitions c
SchedStart(c) ==
    /\ now = 0
    /\ configs = c
    /\ last_runs = [f \in FileNames |-> NoTs]
    /\ tickPc = "scan"
    /\ todo = <<>>
    /\ queue = <<>>
    /\ running = [f \in FileNames |-> 0]
    /\ reported = [f \in FileNames |-> FALSE]
    /\ marked = 0
    /\ fresh = "none"

\* no call of resolve_str or resolve_dict is modelled
ResolveIdle ==
    /\ text = <<>>
    /\ base_context = EmptyDict
    /\ extra_ctx = EmptyDict
    /\ strict = FALSE
    /\ str_result = Raised("pending", <<>>)
    /\ dict_result = Raised("pending", <<>>)

\* no loop-mode collection is modelled
LoopIdle ==
    /\ id_field = Id
    /\ requests = <<>>
    /\ items = <<>>
    /\ item_i = 0
    /\ fetched = <<>>
    /\ collectPc = "idle"

Init ==
    /\ connStr \in {"", "bad", "good"}
    /\ StoreInit
    /\ SchedStart([f \in FileNames |-> DocNoSchedule])
    /\ ResolveIdle
    /\ LoopIdle

\* the remote store with an object of another kind (a block blob, uploaded by
\* some other tool) at the path of the first day's target
ForeignPath == build_bronze_path(CfgPveA, DateStr(0))

ForeignBlobs ==
    [b \in Paths |-> IF b = ForeignPath
                     THEN [kind |-> "block", blocks |-> << <<0>> >>]
                     ELSE [kind |-> "none", blocks |-> <<>>]]

\* the state after construction, except that the remote store is ForeignBlobs
ForeignInit ==
    /\ connStr = "good"
    /\ clock = [day |-> 0, sec |-> 0]
    /\ azureUp = TRUE
    /\ outages = 0
    /\ unlinkFaults = 0
    /\ dirs = {}
    /\ files = {}
    /\ blobs = ForeignBlobs
    /\ nextRec = 1
    /\ usedUids = {}
    /\ pc = [p \in Procs |-> "idle"]
    /\ blob_path = [p \in Procs |-> None]
    /\ records = [p \in Procs |-> <<>>]
    /\ cur = [p \in Procs |-> NoName]
    /\ parts_dirs = [p \in Procs |-> <<>>]
    /\ parts = [p \in Procs |-> <<>>]
    /\ idx = [p \in Procs |-> 0]
    /\ data = [p \in Procs |-> <<>>]
    /\ flushed = [p \in Procs |-> 0]
    /\ failed = [p \in Procs |-> 0]
    /\ ret = [p \in Procs |-> Result("none", 0, 0)]
    /\ runs = [p \in Procs |-> 0]
    /\ written = [p \in Procs |-> <<>>]
    /\ trace = [p \in Procs |-> <<>>]
    /\ prevTrace = [p \in Procs |-> <<>>]
    /\ SchedStart([f \in FileNames |-> DocNoSchedule])
    /\ ResolveIdle
    /\ LoopIdle

\* one resolve_str call and one resolve_dict call on any text, contexts and mode
ResolveInit ==
    /\ connStr = "good"
    /\ StoreInit
    /\ SchedStart([f \in FileNames |-> DocNoSchedule])
    /\ text \in Texts
    /\ base_context \in BaseContexts
    /\ extra_ctx \in ExtraContexts
    /\ strict \in BOOLEAN
    /\ str_result = Raised("pending", <<>>)
    /\ dict_result = Raised("pending", <<>>)
    /\ LoopIdle

\* run_collector of a loop-mode job at line 127, about to fetch the list
CollectInit ==
    /\ connStr = "good"
    /\ StoreInit
    /\ SchedStart([f \in FileNames |-> DocNoSchedule])
    /\ ResolveIdle
    /\ id_field \in IdFields
    /\ items = <<>>
    /\ item_i = 0
    /\ fetched = <<>>
    /\ requests = <<>>
    /\ collectPc = "list"

\* the scheduler started on any two job definitions
SchedInit ==
    /\ connStr = "good"
    /\ StoreInit
    /\ \E c \in [FileNames -> Docs] : SchedStart(c)
    /\ ResolveIdle
    /\ LoopIdle

----------------------------------------------------------------------------
\* Environment.

\* the wall clock advances by a second, or rolls over to the next day
Tick ==
    /\ clock.day + clock.sec < MaxClock
    /\ \/ clock' = [clock EXCEPT !.sec = @ + 1]
       \/ clock' = [day |-> clock.day + 1, sec |-> 0]
    /\ UNCHANGED <<schedVars, collVars, connStr, azureUp, outages, unlinkFaults, diskVars, blobs,
                   nextRec, usedUids, pc, localVars, histVars>>

\* the remote store stops accepting calls
Outage ==
    /\ azureUp
    /\ outages + unlinkFaults < MaxFaults
    /\ azureUp' = FALSE
    /\ outages' = outages + 1
    /\ UNCHANGED <<schedVars, collVars, clock, connStr, unlinkFaults, diskVars, blobs,
                   nextRec, usedUids, pc, localVars, histVars>>

\* the remote store accepts calls again
Recover ==
    /\ ~azureUp
    /\ azureUp' = TRUE
    /\ UNCHANGED <<schedVars, collVars, clock, connStr, outages, unlinkFaults, diskVars, blobs,
                   nextRec, usedUids, pc, localVars, histVars>>

----------------------------------------------------------------------------
\* collector.run_collector, steps 4 and 5: the records fetched by the run are
\* wrapped and spooled one after another, then the run's own target is flushed.

Event(op, n, d) == [op |-> op, name |-> n, data |-> d]

\* run_collector reaches step 4 with n records collected
RunStart(p, cfg, n) ==
    /\ pc[p] = "idle"
    /\ nextRec + n <= MaxRecords + 1
    /\ blob_path' = [blob_path EXCEPT ![p] = build_bronze_path(cfg, DateStr(clock.day))]
    /\ records' = [records EXCEPT ![p] = [i \in 1..n |-> nextRec + i - 1]]
    /\ nextRec' = nextRec + n
    /\ runs' = [runs EXCEPT ![p] = Min(@ + 1, RunsCap)]
    /\ written' = [written EXCEPT ![p] = <<>>]
    /\ prevTrace' = [prevTrace EXCEPT ![p] = trace[p]]
    /\ trace' = [trace EXCEPT ![p] =
                   <<[op |-> "begin", name |-> NoName, data |-> <<>>,
                      dir |-> build_bronze_path(cfg, DateStr(clock.day))]>>]
    /\ ret' = [ret EXCEPT ![p] = Result("none", 0, 0)]
    /\ pc' = [pc EXCEPT ![p] = IF n > 0 THEN "w_mkdir" ELSE "f_begin"]
    /\ UNCHANGED <<schedVars, collVars, envVars, diskVars, blobs, usedUids, cur, parts_dirs, parts,
                   idx, data, flushed, failed>>

\* write_to_spool: parts_dir.mkdir(parents=True, exist_ok=True)
WriteMkdir(p) ==
    /\ pc[p] = "w_mkdir"
    /\ dirs' = dirs \cup {blob_path[p]}
    /\ pc' = [pc EXCEPT ![p] = "w_open"]
    /\ UNCHANGED <<schedVars, collVars, envVars, files, blobs, nextRec, usedUids, localVars, histVars>>

\* write_to_spool: the file name is drawn and write_text opens (creates) the
\* file; with the directory removed meanwhile the open raises and the run ends
WriteOpen(p, u) ==
    /\ pc[p] = "w_open"
    /\ u \in UIDs \ usedUids
    /\ usedUids' = usedUids \cup {u}
    /\ IF blob_path[p] \in dirs
       THEN /\ files' = files \cup
                 {[dir |-> blob_path[p],
                   name |-> [day |-> clock.day, sec |-> clock.sec, uid |-> u],
                   data |-> <<>>]}
            /\ cur' = [cur EXCEPT ![p] = [day |-> clock.day, sec |-> clock.sec, uid |-> u]]
            /\ pc' = [pc EXCEPT ![p] = "w_write"]
            /\ UNCHANGED <<records, ret>>
       ELSE /\ files' = files
            /\ cur' = [cur EXCEPT ![p] = NoName]
            /\ records' = [records EXCEPT ![p] = <<>>]
            /\ ret' = [ret EXCEPT ![p] = Result("raised", 0, 0)]
            /\ pc' = [pc EXCEPT ![p] = "idle"]
    /\ UNCHANGED <<schedVars, collVars, envVars, dirs, blobs, nextRec, blob_path, parts_dirs, parts,
                   idx, data, flushed, failed, runs, histVars>>

\* write_to_spool: write_text writes the serialized record and closes the file
WriteText(p) ==
    /\ pc[p] = "w_write"
    /\ files' = {IF f.dir = blob_path[p] /\ f.name = cur[p]
                 THEN [f EXCEPT !.data = <<Head(records[p])>>] ELSE f : f \in files}
    /\ written' = [written EXCEPT ![p] = Append(@, Head(records[p]))]
    /\ records' = [records EXCEPT ![p] = Tail(@)]
    /\ cur' = [cur EXCEPT ![p] = NoName]
    /\ pc' = [pc EXCEPT ![p] = IF Len(records[p]) > 1 THEN "w_mkdir" ELSE "f_begin"]
    /\ UNCHANGED <<schedVars, collVars, envVars, dirs, blobs, nextRec, usedUids, blob_path, parts_dirs,
                   parts, idx, data, flushed, failed, ret, runs, trace, prevTrace>>

----------------------------------------------------------------------------
\* storage.flush_spool(target_path=blob_path)

\* return flushed, failed
Return(p, r) ==
    /\ ret' = [ret EXCEPT ![p] = Result("returned", r[1], r[2])]
    /\ pc' = [pc EXCEPT ![p] = "idle"]
    /\ parts_dirs' = [parts_dirs EXCEPT ![p] = <<>>]
    /\ parts' = [parts EXCEPT ![p] = <<>>]
    /\ idx' = [idx EXCEPT ![p] = 0]
    /\ flushed' = [flushed EXCEPT ![p] = 0]
    /\ failed' = [failed EXCEPT ![p] = 0]

\* the for loop over parts moves on (or ends: the directory is cleaned up next)
Advance(p) ==
    /\ data' = [data EXCEPT ![p] = <<>>]
    /\ IF idx[p] < Len(parts[p])
       THEN /\ idx' = [idx EXCEPT ![p] = @ + 1]
            /\ pc' = [pc EXCEPT ![p] = "f_read"]
       ELSE /\ idx' = idx
            /\ pc' = [pc EXCEPT ![p] = "f_cleanup"]

\* mutant of PartExcept: the inner handler swallows the failure of a part
\* without counting it
PartExceptUncounted(p, ev) ==
    /\ failed' = failed
    /\ trace' = [trace EXCEPT ![p] = Append(@, ev)]
    /\ Advance(p)

\* except Exception: failed += 1   (the inner handler, one part)
PartExcept(p, ev) ==
    /\ failed' = [failed EXCEPT ![p] = @ + 1]
    /\ trace' = [trace EXCEPT ![p] = Append(@, ev)]
    /\ Advance(p)

\* except Exception: failed += 1   (the outer handler, one target)
TargetExcept(p) ==
    /\ failed' = [failed EXCEPT ![p] = @ + 1]
    /\ trace' = [trace EXCEPT ![p] = Append(@, Event("ensure_fail", NoName, <<>>))]
    /\ parts_dirs' = [parts_dirs EXCEPT ![p] = Tail(@)]
    /\ parts' = [parts EXCEPT ![p] = <<>>]
    /\ pc' = [pc EXCEPT ![p] = "f_list"]

\* the sequences without repetition of the elements of S
Orderings(S) ==
    {q \in [1..Cardinality(S) -> S] : \A i, j \in 1..Cardinality(S) : q[i] = q[j] => i = j}

\* mutant of DirsToScan: the target is ignored and the whole root is scanned
DirsToScanAll(target) == Orderings(dirs)

\* lines 89-97: the directories flush_spool scans (the possible values of
\* parts_dirs): the target's directory if it exists, or, without a target,
\* every directory under the root, in the order rglob yields them
DirsToScan(target) ==
    IF target # None
    THEN {IF target \in dirs THEN <<target>> ELSE <<>>}
    ELSE Orderings(dirs)

\* mutant of FlushBegin: the test of the connection string is missing, so an
\* empty string reaches from_connection_string, which rejects it
FlushBeginNoConfigTest(p) ==
    /\ pc[p] = "f_begin"
    /\ CASE connStr \in {"", "bad"} -> Return(p, <<0, 1>>)
         [] OTHER ->
              /\ flushed' = [flushed EXCEPT ![p] = 0]
              /\ failed' = [failed EXCEPT ![p] = 0]
              /\ \E ds \in DirsToScan(blob_path[p]) :
                    parts_dirs' = [parts_dirs EXCEPT ![p] = ds]
              /\ pc' = [pc EXCEPT ![p] = "f_list"]
              /\ UNCHANGED <<ret, parts, idx>>
    /\ UNCHANGED <<schedVars, collVars, envVars, diskVars, blobs, nextRec, usedUids, blob_path, records,
                   cur, data, runs, histVars>>

\* mutant of FlushBegin: a client that cannot be constructed is counted once
\* for every spooled part of the target
FlushBeginFailsPerPart(p) ==
    /\ pc[p] = "f_begin"
    /\ CASE connStr = ""    -> Return(p, <<0, 0>>)
         [] connStr = "bad" -> Return(p, <<0, Len(ListParts(blob_path[p]))>>)
         [] OTHER ->
              /\ flushed' = [flushed EXCEPT ![p] = 0]
              /\ failed' = [failed EXCEPT ![p] = 0]
              /\ \E ds \in DirsToScan(blob_path[p]) :
                    parts_dirs' = [parts_dirs EXCEPT ![p] = ds]
              /\ pc' = [pc EXCEPT ![p] = "f_list"]
              /\ UNCHANGED <<ret, parts, idx>>
    /\ UNCHANGED <<schedVars, collVars, envVars, diskVars, blobs, nextRec, usedUids, blob_path, records,
                   cur, data, runs, histVars>>

\* lines 69-97: configuration, client construction, directories to scan
FlushBegin(p) ==
    /\ pc[p] = "f_begin"
    /\ CASE connStr = ""    -> Return(p, <<0, 0>>)
         [] connStr = "bad" -> Return(p, <<0, 1>>)
         [] OTHER ->
              /\ flushed' = [flushed EXCEPT ![p] = 0]
              /\ failed' = [failed EXCEPT ![p] = 0]
              /\ \E ds \in DirsToScan(blob_path[p]) :
                    parts_dirs' = [parts_dirs EXCEPT ![p] = ds]
              /\ pc' = [pc EXCEPT ![p] = "f_list"]
              /\ UNCHANGED <<ret, parts, idx>>
    /\ UNCHANGED <<schedVars, collVars, envVars, diskVars, blobs, nextRec, usedUids, blob_path, records,
                   cur, data, runs, histVars>>

\* lines 99-110: next directory, its sorted parts; line 131 when none is left
FlushList(p) ==
    /\ pc[p] = "f_list"
    /\ IF parts_dirs[p] = <<>>
       THEN Return(p, <<flushed[p], failed[p]>>)
       ELSE /\ parts' = [parts EXCEPT ![p] = ListParts(Head(parts_dirs[p]))]
            /\ idx' = [idx EXCEPT ![p] = 1]
            /\ pc' = [pc EXCEPT ![p] =
                        IF ListParts(Head(parts_dirs[p])) = <<>> THEN "f_cleanup" ELSE "f_exists"]
            /\ UNCHANGED <<ret, parts_dirs, flushed, failed>>
    /\ UNCHANGED <<schedVars, collVars, envVars, diskVars, blobs, nextRec, usedUids, blob_path, records,
                   cur, data, runs, histVars>>

\* _cleanup_dir (lines 109, 126, 133-137): rmdir removes an empty directory only
FlushCleanup(p) ==
    /\ pc[p] = "f_cleanup"
    /\ dirs' = IF FilesIn(Head(parts_dirs[p])) = {} THEN dirs \ {Head(parts_dirs[p])} ELSE dirs
    /\ parts_dirs' = [parts_dirs EXCEPT ![p] = Tail(@)]
    /\ parts' = [parts EXCEPT ![p] = <<>>]
    /\ pc' = [pc EXCEPT ![p] = "f_list"]
    /\ UNCHANGED <<schedVars, collVars, envVars, files, blobs, nextRec, usedUids, blob_path, records,
                   cur, idx, data, flushed, failed, ret, runs, histVars>>

\* lines 113-114: blob.exists()
FlushExists(p) ==
    /\ pc[p] = "f_exists"
    /\ IF ~azureUp
       THEN /\ TargetExcept(p)
            /\ UNCHANGED written
            /\ UNCHANGED prevTrace
       ELSE /\ pc' = [pc EXCEPT ![p] =
                        IF blobs[Head(parts_dirs[p])].kind = "none" THEN "f_create" ELSE "f_read"]
            /\ UNCHANGED <<failed, parts_dirs, parts, histVars>>
    /\ UNCHANGED <<schedVars, collVars, envVars, diskVars, blobs, nextRec, usedUids, blob_path, records,
                   cur, idx, data, flushed, ret, runs>>

\* the remote object after create_append_blob: a new, empty append blob
CreatedBlob(old) == [kind |-> "append", blocks |-> <<>>]

\* line 115: blob.create_append_blob()
FlushCreate(p) ==
    /\ pc[p] = "f_create"
    /\ IF ~azureUp
       THEN /\ TargetExcept(p)
            /\ UNCHANGED <<blobs, written, prevTrace>>
       ELSE /\ blobs' = [blobs EXCEPT ![Head(parts_dirs[p])] = CreatedBlob(@)]
            /\ pc' = [pc EXCEPT ![p] = "f_read"]
            /\ UNCHANGED <<failed, parts_dirs, parts, histVars>>
    /\ UNCHANGED <<schedVars, collVars, envVars, diskVars, nextRec, usedUids, blob_path, records,
                   cur, idx, data, flushed, ret, runs>>

\* line 119: data = part.read_bytes()
FlushRead(p) ==
    /\ pc[p] = "f_read"
    /\ LET d == Head(parts_dirs[p])
           n == parts[p][idx[p]]
       IN  IF FileAt(d, n) # {}
           THEN /\ data' = [data EXCEPT ![p] = (CHOOSE f \in FileAt(d, n) : TRUE).data]
                /\ pc' = [pc EXCEPT ![p] = "f_append"]
                /\ UNCHANGED <<idx, failed, trace>>
           ELSE PartExcept(p, Event("read_fail", n, <<>>))
    /\ UNCHANGED <<schedVars, collVars, envVars, diskVars, blobs, nextRec, usedUids, blob_path, records,
                   cur, parts_dirs, parts, flushed, ret, runs, written, prevTrace>>

\* whether blob.append_block(data) succeeds: the store is reachable, the object
\* is an append blob, and the block is not empty (the client refuses to send a
\* zero-length block)
AppendAccepted(b, d) == azureUp /\ b.kind = "append" /\ d # <<>>

\* mutant of FlushAppend: a failed append is swallowed and the part is unlinked
\* all the same
FlushAppendThenUnlink(p) ==
    /\ pc[p] = "f_append"
    /\ LET d == Head(parts_dirs[p])
           n == parts[p][idx[p]]
       IN  IF AppendAccepted(blobs[d], data[p])
           THEN /\ blobs' = [blobs EXCEPT ![d].blocks = Append(@, data[p])]
                /\ trace' = [trace EXCEPT ![p] = Append(@, Event("append_ok", n, data[p]))]
           ELSE /\ blobs' = blobs
                /\ trace' = [trace EXCEPT ![p] = Append(@, Event("append_fail", n, data[p]))]
    /\ pc' = [pc EXCEPT ![p] = "f_unlink"]
    /\ UNCHANGED <<schedVars, collVars, envVars, diskVars, nextRec, usedUids, blob_path, records, idx, data,
                   failed, cur, parts_dirs, parts, flushed, ret, runs, written, prevTrace>>

\* line 120: blob.append_block(data)
FlushAppend(p) ==
    /\ pc[p] = "f_append"
    /\ LET d == Head(parts_dirs[p])
           n == parts[p][idx[p]]
       IN  IF AppendAccepted(blobs[d], data[p])
           THEN /\ blobs' = [blobs EXCEPT ![d].blocks = Append(@, data[p])]
                /\ trace' = [trace EXCEPT ![p] = Append(@, Event("append_ok", n, data[p]))]
                /\ pc' = [pc EXCEPT ![p] = "f_unlink"]
                /\ UNCHANGED <<idx, data, failed>>
           ELSE /\ PartExcept(p, Event("append_fail", n, data[p]))
                /\ UNCHANGED blobs
    /\ UNCHANGED <<schedVars, collVars, envVars, diskVars, nextRec, usedUids, blob_path, records,
                   cur, parts_dirs, parts, flushed, ret, runs, written, prevTrace>>

\* mutant of FlushUnlink: flushed is counted before the unlink is attempted, so
\* a part whose local delete fails counts as flushed
FlushUnlinkCountsFlushed(p) ==
    /\ pc[p] = "f_unlink"
    /\ LET d == Head(parts_dirs[p])
           n == parts[p][idx[p]]
       IN  \/ /\ FileAt(d, n) # {}
              /\ files' = files \ FileAt(d, n)
              /\ trace' = [trace EXCEPT ![p] = Append(@, Event("unlink_ok", n, <<>>))]
              /\ UNCHANGED unlinkFaults
           \/ /\ FileAt(d, n) = {}
              /\ trace' = [trace EXCEPT ![p] = Append(@, Event("unlink_fail", n, <<>>))]
              /\ UNCHANGED <<files, unlinkFaults>>
           \/ /\ FileAt(d, n) # {}
              /\ outages + unlinkFaults < MaxFaults
              /\ unlinkFaults' = unlinkFaults + 1
              /\ trace' = [trace EXCEPT ![p] = Append(@, Event("unlink_fail", n, <<>>))]
              /\ UNCHANGED files
    /\ flushed' = [flushed EXCEPT ![p] = @ + 1]
    /\ Advance(p)
    /\ UNCHANGED <<schedVars, collVars, clock, connStr, azureUp, outages, dirs, blobs, nextRec, usedUids, failed,
                   blob_path, records, cur, parts_dirs, parts, ret, runs, written, prevTrace>>

\* lines 121-122: part.unlink(); flushed += 1
FlushUnlink(p) ==
    /\ pc[p] = "f_unlink"
    /\ LET d == Head(parts_dirs[p])
           n == parts[p][idx[p]]
       IN  \/ /\ FileAt(d, n) # {}
              /\ files' = files \ FileAt(d, n)
              /\ flushed' = [flushed EXCEPT ![p] = @ + 1]
              /\ trace' = [trace EXCEPT ![p] = Append(@, Event("unlink_ok", n, <<>>))]
              /\ Advance(p)
              /\ UNCHANGED <<failed, unlinkFaults>>
           \/ /\ FileAt(d, n) = {}
              /\ PartExcept(p, Event("unlink_fail", n, <<>>))
              /\ UNCHANGED <<files, flushed, unlinkFaults>>
           \/ /\ FileAt(d, n) # {}
              /\ outages + unlinkFaults < MaxFaults
              /\ unlinkFaults' = unlinkFaults + 1
              /\ PartExcept(p, Event("unlink_fail", n, <<>>))
              /\ UNCHANGED <<files, flushed>>
    /\ UNCHANGED <<schedVars, collVars, clock, connStr, azureUp, outages, dirs, blobs, nextRec, usedUids,
                   blob_path, records, cur, parts_dirs, parts, ret, runs, written, prevTrace>>

----------------------------------------------------------------------------
\* one step of worker p inside run_collector's spool-and-flush tail
WorkerStep(p) ==
    \/ WriteMkdir(p)
    \/ WriteText(p)
    \/ FlushBegin(p)
    \/ FlushList(p)
    \/ FlushCleanup(p)
    \/ FlushExists(p)
    \/ FlushCreate(p)
    \/ FlushRead(p)
    \/ FlushAppend(p)
    \/ FlushUnlink(p)

\* the smallest uuid not drawn yet
FirstFree == CHOOSE u \in UIDs \ usedUids : \A v \in UIDs \ usedUids : u <= v

\* Sequential runs: one worker runs one job again and again, the clock moves,
\* the remote store and the local delete may fail.
Next ==
    \/ Tick
    \/ Outage
    \/ Recover
    \/ \E n \in 0..MaxRecords : runs[1] < RunsCap /\ RunStart(1, CfgPveA, n)
    \/ \E u \in UIDs : WriteOpen(1, u)
    \/ WorkerStep(1)

Spec == Init /\ [][Next]_vars

\* Sequential runs against a store that holds an object of another kind at the
\* first day's target path.
ForeignSpec == ForeignInit /\ [][Next]_vars

\* storage.flush_spool() called without a target, outside a collection run
SweepStart(p) ==
    /\ pc[p] = "idle"
    /\ blob_path' = [blob_path EXCEPT ![p] = None]
    /\ records' = [records EXCEPT ![p] = <<>>]
    /\ written' = [written EXCEPT ![p] = <<>>]
    /\ prevTrace' = [prevTrace EXCEPT ![p] = trace[p]]
    /\ trace' = [trace EXCEPT ![p] =
                   <<[op |-> "begin", name |-> NoName, data |-> <<>>, dir |-> None]>>]
    /\ ret' = [ret EXCEPT ![p] = Result("none", 0, 0)]
    /\ pc' = [pc EXCEPT ![p] = "f_begin"]
    /\ UNCHANGED <<schedVars, collVars, envVars, diskVars, blobs, nextRec, usedUids, cur, parts_dirs,
                   parts, idx, data, flushed, failed, runs>>

\* Sequential runs of one job, each flushing its own target, and in between
\* flushes of the whole spool root.
SweepNext ==
    \/ Next
    \/ SweepStart(1)

SweepSpec == Init /\ [][SweepNext]_vars

\* The running scheduler seen from one job's worker: the job keeps being
\* dispatched, a started run proceeds, and a remote outage ends.  The clock
\* may or may not advance.
LiveNext ==
    \/ Tick
    \/ Outage
    \/ Recover
    \/ \E n \in 0..MaxRecords : RunStart(1, CfgPveA, n)
    \/ \E u \in UIDs : WriteOpen(1, u)
    \/ WorkerStep(1)

LiveSpec ==
    /\ Init
    /\ [][LiveNext]_vars
    /\ WF_vars(WorkerStep(1) \/ \E u \in UIDs : WriteOpen(1, u))
    /\ WF_vars(Recover)
    /\ SF_vars(\E n \in 0..MaxRecords : RunStart(1, CfgPveA, n))

\* Overlapping runs: two workers each perform one run (of the same job or of
\* two jobs) within one clock second.
ConcNext ==
    \/ Outage
    \/ Recover
    \/ \E p \in Procs, cfg \in Cfgs, n \in 0..MaxRecords :
          /\ runs[p] = 0
          /\ p = 1 \/ runs[1] > 0
          /\ RunStart(p, cfg, n)
    \/ \E p \in Procs : WriteOpen(p, FirstFree)
    \/ \E p \in Procs : WorkerStep(p)

ConcSpec == Init /\ [][ConcNext]_vars

----------------------------------------------------------------------------
\* scheduler.main: the main thread runs tick and sleeps, forever; the pool's
\* workers run the submitted safe_run calls.  What a run does to the spool is
\* modelled above; here a run is what the scheduler sees of it: it starts, and
\* it returns or raises.

tickVars == <<tickPc, todo, last_runs>>

\* the safe_run calls executing on workers
Busy == running[ConfigFiles[1]] + running[ConfigFiles[2]]

\* q without its i-th element
Remove(q, i) == SubSeq(q, 1, i - 1) \o SubSeq(q, i + 1, Len(q))

\* time.time() moves on
time_passes ==
    /\ now < MaxTime
    /\ now' = now + 1
    /\ UNCHANGED <<storeVars, collVars, configs, last_runs, tickPc, todo, queue, running,
                   reported, marked, fresh>>

\* tick, line 38: the directory is listed and sorted
tick_scan ==
    /\ tickPc = "scan"
    /\ todo' = ConfigFiles
    /\ tickPc' = "eval"
    /\ UNCHANGED <<storeVars, collVars, now, configs, last_runs, queue, running, reported,
                   marked, fresh>>

\* mutant of tick_eval: one run per job at a time -- a due job that still has a
\* submission queued or a run executing is passed over
tick_eval_exclusive ==
    /\ tickPc = "eval"
    /\ todo # <<>>
    /\ LET p   == Head(todo)
           cfg == configs[p]
           due == should_run(cfg, last_runs[p], now)
       IN  IF cfg.empty
           THEN /\ todo' = Tail(todo)
                /\ UNCHANGED <<tickPc, queue, marked, fresh>>
           ELSE CASE due = "raise" ->
                       /\ tickPc' = "raised"
                       /\ UNCHANGED <<todo, queue, marked, fresh>>
                  [] due = "True" /\ running[p] = 0
                                  /\ p \notin {queue[i] : i \in 1..Len(queue)} ->
                       /\ Len(queue) < MaxQueue
                       /\ queue' = Append(queue, p)
                       /\ tickPc' = "stamp"
                       /\ fresh' = "queued"
                       /\ marked' \in IF marked = 0 THEN {0, Len(queue) + 1}
                                                    ELSE {marked}
                       /\ UNCHANGED todo
                  [] OTHER ->
                       /\ todo' = Tail(todo)
                       /\ UNCHANGED <<tickPc, queue, marked, fresh>>
    /\ UNCHANGED <<storeVars, collVars, now, configs, last_runs, running, reported>>

\* tick, lines 39-47, for the next file: load_yaml, the emptiness test,
\* should_run, and pool.submit when the job is due.  An exception of should_run
\* leaves tick and main; the with block then shuts the pool down, which lets
\* the submitted calls finish.
tick_eval ==
    /\ tickPc = "eval"
    /\ todo # <<>>
    /\ LET p   == Head(todo)
           cfg == configs[p]
           due == should_run(cfg, last_runs[p], now)
       IN  IF cfg.empty
           THEN /\ todo' = Tail(todo)
                /\ UNCHANGED <<tickPc, queue, marked, fresh>>
           ELSE CASE due = "raise" ->
                       /\ tickPc' = "raised"
                       /\ UNCHANGED <<todo, queue, marked, fresh>>
                  [] due = "True" ->
                       /\ Len(queue) < MaxQueue
                       /\ queue' = Append(queue, p)
                       /\ tickPc' = "stamp"
                       /\ fresh' = "queued"
                       /\ marked' \in IF marked = 0 THEN {0, Len(queue) + 1}
                                                    ELSE {marked}
                       /\ UNCHANGED todo
                  [] OTHER ->
                       /\ todo' = Tail(todo)
                       /\ UNCHANGED <<tickPc, queue, marked, fresh>>
    /\ UNCHANGED <<storeVars, collVars, now, configs, last_runs, running, reported>>

\* mutant of tick_stamp: the loop moves on without recording the dispatch
tick_move_on ==
    /\ tickPc = "stamp"
    /\ todo' = Tail(todo)
    /\ tickPc' = "eval"
    /\ fresh' = "none"
    /\ UNCHANGED <<storeVars, collVars, now, configs, last_runs, queue, running, reported, marked>>

\* tick, line 48: last_runs[p_str] = time.time()
tick_stamp ==
    /\ tickPc = "stamp"
    /\ last_runs' = [last_runs EXCEPT ![Head(todo)] = now]
    /\ todo' = Tail(todo)
    /\ tickPc' = "eval"
    /\ fresh' = "none"
    /\ UNCHANGED <<storeVars, collVars, now, configs, queue, running, reported, marked>>

\* the for loop is exhausted: tick returns and main calls time.sleep
tick_done ==
    /\ tickPc = "eval"
    /\ todo = <<>>
    /\ tickPc' = "sleep"
    /\ UNCHANGED <<storeVars, collVars, now, configs, last_runs, todo, queue, running,
                   reported, marked, fresh>>

\* main, line 70: time.sleep(args.tick_seconds) returns
sleep_done ==
    /\ tickPc = "sleep"
    /\ tickPc' = "scan"
    /\ UNCHANGED <<storeVars, collVars, now, configs, last_runs, todo, queue, running,
                   reported, marked, fresh>>

\* mutant of TakeOldest: a free worker takes the newest submission
TakeNewest(q) == Len(q)

\* the work queue is first in, first out: a free worker takes the oldest
\* submission
TakeOldest(q) == 1

\* mutant of worker_start: the pool starts a thread for every submission,
\* however many are executing
worker_start_unbounded ==
    /\ queue # <<>>
    /\ LET i == TakeOldest(queue)
       IN  /\ running' = [running EXCEPT ![queue[i]] = @ + 1]
           /\ queue' = Remove(queue, i)
           /\ marked' = IF marked = i THEN 0
                        ELSE IF marked > i THEN marked - 1 ELSE marked
           /\ fresh' = IF fresh = "queued" /\ i = Len(queue) THEN "started" ELSE fresh
    /\ UNCHANGED <<storeVars, collVars, now, configs, last_runs, tickPc, todo, reported>>

\* a worker that is free takes a submission from the queue and calls safe_run
worker_start ==
    /\ queue # <<>>
    /\ Busy < PoolSize
    /\ LET i == TakeOldest(queue)
       IN  /\ running' = [running EXCEPT ![queue[i]] = @ + 1]
           /\ queue' = Remove(queue, i)
           /\ marked' = IF marked = i THEN 0
                        ELSE IF marked > i THEN marked - 1 ELSE marked
           /\ fresh' = IF fresh = "queued" /\ i = Len(queue) THEN "started" ELSE fresh
    /\ UNCHANGED <<storeVars, collVars, now, configs, last_runs, tickPc, todo, reported>>

\* safe_run: run_collector returns; the worker is free again
job_returns(f) ==
    /\ running[f] > 0
    /\ running' = [running EXCEPT ![f] = @ - 1]
    /\ UNCHANGED <<storeVars, collVars, now, configs, last_runs, tickPc, todo, queue,
                   reported, marked, fresh>>

\* mutant of job_raises: the exception of the job reaches the main thread and
\* ends the tick loop
job_raises_to_tick(f) ==
    /\ running[f] > 0
    /\ running' = [running EXCEPT ![f] = @ - 1]
    /\ reported' = [reported EXCEPT ![f] = TRUE]
    /\ tickPc' = "raised"
    /\ UNCHANGED <<storeVars, collVars, now, configs, last_runs, todo, queue, marked, fresh>>

\* safe_run, lines 54-55: run_collector raises; the exception is caught and
\* printed, safe_run returns, the worker is free again
job_raises(f) ==
    /\ running[f] > 0
    /\ running' = [running EXCEPT ![f] = @ - 1]
    /\ reported' = [reported EXCEPT ![f] = TRUE]
    /\ UNCHANGED <<storeVars, collVars, now, configs, last_runs, tickPc, todo, queue,
                   marked, fresh>>

\* one step of the main thread
main_step == tick_scan \/ tick_eval \/ tick_stamp \/ tick_done \/ sleep_done

SchedNext ==
    \/ time_passes
    \/ tick_scan
    \/ tick_eval
    \/ tick_stamp
    \/ tick_done
    \/ sleep_done
    \/ worker_start
    \/ \E f \in FileNames : job_returns(f)
    \/ \E f \in FileNames : job_raises(f)

SchedSpec == SchedInit /\ [][SchedNext]_vars

\* The scheduler with threads scheduled fairly: the main thread keeps taking
\* its steps, a free worker takes queued work, and every run ends.
\* the scheduler started with an always-due first job and any second job
LiveInit ==
    /\ connStr = "good"
    /\ StoreInit
    /\ \E d \in {DocWhole, DocFraction} : SchedStart([f \in FileNames |-> IF f = ConfigFiles[1] THEN DocNoSchedule ELSE d])
    /\ ResolveIdle
    /\ LoopIdle

LiveSched ==
    /\ LiveInit
    /\ [][SchedNext]_vars
    /\ WF_vars(main_step)
    /\ WF_vars(worker_start)
    /\ \A f \in FileNames : WF_vars(job_returns(f) \/ job_raises(f))

----------------------------------------------------------------------------
\* Calls of the interpolation functions on the inputs drawn initially.

\* ctx.resolve_str(text, extra_ctx, strict=strict)
call_resolve_str ==
    /\ str_result.st = "pending"
    /\ str_result' = resolve_str(base_context, text, extra_ctx, strict)
    /\ UNCHANGED <<storeVars, schedVars, loopVars, text, base_context, extra_ctx,
                   strict, dict_result>>

\* ctx.resolve_dict(DocOf(text), extra_ctx, strict=strict)
call_resolve_dict ==
    /\ dict_result.st = "pending"
    /\ dict_result' = resolve_dict(base_context, DocOf(text), extra_ctx, strict)
    /\ UNCHANGED <<storeVars, schedVars, loopVars, text, base_context, extra_ctx,
                   strict, str_result>>

ResolveNext ==
    \/ call_resolve_str
    \/ call_resolve_dict

ResolveSpec == ResolveInit /\ [][ResolveNext]_vars

----------------------------------------------------------------------------
\* collector.run_collector in loop mode: the fetch of the list (lines 120-150),
\* the for loop over the listed items (lines 152-167), followed by the spooling
\* and the flush of what was fetched.

\* lines 127-142: client.get(list_endpoint), which raises out of run_collector
\* or returns the document in which the list is found (anything that is not a
\* list counts as the empty list)
list_fetch ==
    /\ collectPc = "list"
    /\ requests' = Append(requests, <<0, ListEndpoint>>)
    /\ \/ \E l \in ItemLists :
             /\ items' = l
             /\ item_i' = 1
             /\ collectPc' = "loop"
       \/ /\ collectPc' = "list_failed"
          /\ UNCHANGED <<items, item_i>>
    /\ UNCHANGED <<storeVars, schedVars, resolveVars, id_field, fetched>>

\* one iteration: item.get(id_field) -- which raises AttributeError, out of
\* run_collector, when the item is not a mapping --, the test of the id, and
\* inside the try the strict resolution of the template and the detail fetch,
\* which succeeds or raises
loop_item ==
    /\ collectPc = "loop"
    /\ item_i <= Len(items)
    /\ LET item == items[item_i]
       IN  IF item.t # "dict"
           THEN /\ collectPc' = "raised"
                /\ UNCHANGED <<item_i, fetched, requests>>
           ELSE IF Falsy(ItemId(item, id_field))
           THEN /\ item_i' = item_i + 1
                /\ UNCHANGED <<fetched, requests, collectPc>>
           ELSE LET item_url == resolve_str(EmptyDict, ItemTemplate,
                                            item_ctx(item, id_field), TRUE)
                IN  IF item_url.st # "ok"
                    THEN /\ item_i' = item_i + 1
                         /\ UNCHANGED <<fetched, requests, collectPc>>
                    ELSE /\ item_i' = item_i + 1
                         /\ requests' = Append(requests, <<item_i, item_url.out>>)
                         /\ \/ fetched' = Append(fetched, item_i)
                            \/ fetched' = fetched
                         /\ UNCHANGED collectPc
    /\ UNCHANGED <<storeVars, schedVars, resolveVars, id_field, items>>

\* the list is exhausted: run_collector goes on to step 4
loop_done ==
    /\ collectPc = "loop"
    /\ item_i > Len(items)
    /\ collectPc' = "collected"
    /\ UNCHANGED <<storeVars, schedVars, resolveVars, id_field, items, item_i, fetched, requests>>

\* One run of a loop-mode job: the loop, then the run's spool-and-flush tail
\* with the records fetched.
CollectNext ==
    \/ list_fetch
    \/ loop_item
    \/ loop_done
    \/ collectPc = "collected" /\ runs[1] = 0 /\ RunStart(1, CfgPveB, Len(fetched))
    \/ \E u \in UIDs : WriteOpen(1, u)
    \/ WorkerStep(1)

CollectSpec == CollectInit /\ [][CollectNext]_vars

----------------------------------------------------------------------------
\* What an invocation's trace says.

\* the names of the events of kind op, in order
RECURSIVE NamesOf(_, _)
NamesOf(t, op) ==
    IF t = <<>> THEN <<>>
    ELSE IF Head(t).op = op THEN <<Head(t).name>> \o NamesOf(Tail(t), op)
         ELSE NamesOf(Tail(t), op)

Range(q)        == {q[i] : i \in 1..Len(q)}
Count(t, op)    == Len(NamesOf(t, op))
Target(t)       == Head(t).dir
IsPrefix(a, b)  == Len(a) <= Len(b) /\ SubSeq(b, 1, Len(a)) = a
PartsOnDisk     == {<<f.dir, f.name>> : f \in files}
Finished(p)     == pc[p] = "idle" /\ ret[p].st = "returned"
AppendedOk(t, n, d) ==
    \E i \in 1..Len(t) : t[i].op = "append_ok" /\ t[i].name = n /\ t[i].data = d

\* the part a worker's flush loop is at
CurPart(p) == <<Head(parts_dirs[p]), parts[p][idx[p]]>>

----------------------------------------------------------------------------
\* C1 (ConcSpec): a step removes a part file from disk only if it is the unlink
\* of a flush invocation that has appended that file's bytes successfully, and
\* a step in which an append fails deletes nothing and counts the part as failed.
C1_Step ==
    /\ \A f \in files :
          <<f.dir, f.name>> \notin PartsOnDisk' =>
             \E p \in Procs : /\ pc[p] = "f_unlink"
                              /\ CurPart(p) = <<f.dir, f.name>>
                              /\ AppendedOk(trace[p], f.name, f.data)
    /\ \A p \in Procs :
          (pc[p] = "f_append" /\ pc'[p] # "f_append" /\ blobs' = blobs) =>
             /\ PartsOnDisk' = PartsOnDisk
             /\ failed'[p] = failed[p] + 1
             /\ pc'[p] # "f_unlink"

C1_DeleteOnlyAfterAppend == [][C1_Step]_vars

\* C1 witness: both workers ran; one invocation has deleted a part it appended
\* and has left on disk a part whose append failed.
C1_Witness ==
    /\ runs[2] > 0
    /\ \E p \in Procs :
          /\ Finished(p)
          /\ Count(trace[p], "unlink_ok") > 0
          /\ \E n \in Range(NamesOf(trace[p], "append_fail")) :
                <<Target(trace[p]), n>> \in PartsOnDisk
          /\ ret[p].failed > 0

----------------------------------------------------------------------------
\* C2 (Spec): after a first run that wrote N records one after another and
\* flushed them with no failure, the remote target holds exactly those N
\* blocks in write order and the spool directory holds no part file.
C2_FlushInWriteOrder ==
    (/\ Finished(1) /\ runs[1] = 1
     /\ outages = 0 /\ unlinkFaults = 0
     /\ ret[1].flushed = Len(written[1]) /\ ret[1].failed = 0)
    => /\ blobs[blob_path[1]].blocks = [i \in 1..Len(written[1]) |-> <<written[1][i]>>]
       /\ FilesIn(blob_path[1]) = {}

----------------------------------------------------------------------------
\* C3 (Spec), as claimed: once the append of a part has failed in a flush, every
\* part listed after it is still on disk when the flush ends.
C3_FailureKeepsSuffix ==
    Finished(1) =>
       \A i, j \in 1..Len(trace[1]) :
          (i < j /\ trace[1][i].op = "append_fail" /\ trace[1][j].op \in {"append_ok", "append_fail"})
             => <<Target(trace[1]), trace[1][j].name>> \in PartsOnDisk

\* the parts a pass leaves on disk: those it did not unlink
LeftBy(t) == (Range(NamesOf(t, "append_fail")) \cup Range(NamesOf(t, "unlink_fail"))
              \cup Range(NamesOf(t, "read_fail"))) \ Range(NamesOf(t, "unlink_ok"))

\* C3 (Spec), amended: when a flush ends, every part whose append failed is on
\* disk and every part it appended and unlinked is gone with its bytes in the
\* remote object, whatever their positions (parts after a failed one are still
\* attempted); and a following pass of the same target that writes nothing
\* new and meets no failure appends exactly the parts left, in sorted order.
C3_FailedPartsRetriedInOrder ==
    Finished(1) =>
       /\ \A n \in Range(NamesOf(trace[1], "append_fail")) :
             <<Target(trace[1]), n>> \in PartsOnDisk
       /\ \A i \in 1..Len(trace[1]) :
             trace[1][i].op = "unlink_ok" =>
                /\ <<Target(trace[1]), trace[1][i].name>> \notin PartsOnDisk
                /\ i > 1 /\ trace[1][i-1].op = "append_ok"
                /\ trace[1][i-1].name = trace[1][i].name
                /\ trace[1][i-1].data \in Range(blobs[Target(trace[1])].blocks)
       /\ (/\ runs[1] >= 2
           /\ Count(prevTrace[1], "append_fail") > 0
           /\ Target(prevTrace[1]) = Target(trace[1])
           /\ written[1] = <<>>
           /\ ret[1].failed = 0)
          => /\ NamesOf(trace[1], "append_ok") = SortedNames(LeftBy(prevTrace[1]))
             /\ FilesIn(Target(trace[1])) = {}

\* C3 witness: a pass in which the first part's append failed and a later part
\* was uploaded, followed by a clean pass that uploaded what was left.
C3_Witness ==
    /\ Finished(1) /\ runs[1] >= 2
    /\ Len(prevTrace[1]) >= 3
    /\ prevTrace[1][2].op = "append_fail"
    /\ Count(prevTrace[1], "unlink_ok") > 0
    /\ Target(prevTrace[1]) = Target(trace[1])
    /\ written[1] = <<>>
    /\ ret[1].flushed = 1 /\ ret[1].failed = 0

----------------------------------------------------------------------------
\* C4 (LiveSpec): every part file left on disk by a failed append is eventually
\* appended to its remote target by a later flush pass, while the job keeps
\* being dispatched and the remote store comes back.
LeftAfterFailedAppend(d, r) ==
    \E f \in files :
       /\ f.dir = d /\ f.data = <<r>>
       /\ Target(trace[1]) = d
       /\ \E i \in 1..Len(trace[1]) :
             trace[1][i].op = "append_fail" /\ trace[1][i].name = f.name

InRemote(d, r) == <<r>> \in Range(blobs[d].blocks)

C4_LeftoverEventuallyAppended ==
    \A d \in Paths, r \in 1..MaxRecords : LeftAfterFailedAppend(d, r) ~> InRemote(d, r)

----------------------------------------------------------------------------
\* C5 (Spec), as claimed: a step in which the local delete fails after a
\* successful append counts the part as flushed, not as failed.
C5_UnlinkFailStep ==
    pc[1] = "f_unlink" /\ pc'[1] # "f_unlink" /\ CurPart(1) \in PartsOnDisk'

C5_DeleteFailureCountsFlushed ==
    [][C5_UnlinkFailStep => (flushed'[1] = flushed[1] + 1 /\ failed'[1] = failed[1])]_vars

\* C5 (Spec), amended: such a step counts the part as failed, not as flushed,
\* and leaves the file on disk with its bytes unchanged (so that a later flush
\* appends them again).
C5_DeleteFailureCountsFailed ==
    [][C5_UnlinkFailStep =>
         /\ failed'[1] = failed[1] + 1
         /\ flushed'[1] = flushed[1]
         /\ files' = files
         /\ AppendedOk(trace[1], CurPart(1)[2], (CHOOSE f \in files : <<f.dir, f.name>> = CurPart(1)).data)]_vars

\* C5 witness: the same bytes have been appended twice to a remote target, the
\* second time by the pass that followed a failed local delete.
C5_Witness ==
    /\ Finished(1) /\ runs[1] >= 2
    /\ Count(prevTrace[1], "unlink_fail") > 0
    /\ \E b \in Paths : \E i, j \in 1..Len(blobs[b].blocks) :
          i < j /\ blobs[b].blocks[i] = blobs[b].blocks[j]

----------------------------------------------------------------------------
\* C6 (ConcSpec): the content of every remote target only grows: each step
\* leaves the blocks already appended in place, as a prefix of the new content.
C6_RemoteOnlyGrows ==
    [][\A b \in Paths : IsPrefix(blobs[b].blocks, blobs'[b].blocks)]_vars

----------------------------------------------------------------------------
\* What the scheduler claims speak of.

\* a document should_run returns on: a mapping whose schedule block is absent
\* or a mapping, with no interval or a numeric one
WellFormed(cfg) == ~cfg.empty /\ cfg.schedule # "null" /\ cfg.interval.type # "str"

\* no interval is configured
NoInterval(cfg) == cfg.schedule = "absent" \/ NotInterval(cfg.interval)

C8_StampedBeforeStart == ~(tickPc = "stamp" /\ fresh = "started")

C8_Step ==
    /\ tickPc = "stamp" =>
          \/ UNCHANGED tickVars
          \/ /\ last_runs' = [last_runs EXCEPT ![Head(todo)] = now]
             /\ todo' = Tail(todo)
             /\ tickPc' = "eval"
    /\ last_runs' # last_runs => tickPc = "stamp"
    /\ tickPc # "stamp" /\ tickPc' = "stamp" =>
          /\ queue' = Append(queue, Head(todo))
          /\ todo' = todo

\* C8 amended (SchedSpec): the timestamp is written by the main thread as its
\* very next step after the submission -- before it looks at any other file,
\* with the time of that step, and without waiting for the job (the step is
\* enabled whatever the workers do) -- and by no other step; the submitted job
\* may start on a worker before the write.
C8_StampedRightAfterSubmit ==
    /\ [][C8_Step]_vars
    /\ [](tickPc = "stamp" => ENABLED tick_stamp)

\* the submitted job runs on a worker while its map entry is still empty
C8_Witness ==
    /\ tickPc = "stamp"
    /\ fresh = "started"
    /\ running[Head(todo)] > 0
    /\ last_runs[Head(todo)] = NoTs

\* C9 (LiveSched): every submission eventually leaves the queue for a worker,
\* also while one job is dispatched again and again with its earlier runs
\* still executing.
C9_SubmittedEventuallyStarts == (marked > 0) ~> (marked = 0)

\* all five workers execute runs of the always-due first job, and a submission
\* of the other job waits in the queue behind a further one of the first
C9_Witness ==
    /\ running[ConfigFiles[1]] = PoolSize
    /\ marked > 0
    /\ queue[marked] = ConfigFiles[2]
    /\ ConfigFiles[1] \in {queue[i] : i \in 1..Len(queue)}

C10_Step ==
    /\ \A f \in FileNames :
          (running'[f] = running[f] - 1 /\ reported'[f]) =>
              /\ UNCHANGED <<tickVars, queue>>
              /\ \A g \in FileNames \ {f} : running'[g] = running[g]
              /\ Busy' = Busy - 1
    /\ tickPc' = "raised" /\ tickPc # "raised" =>
          /\ tickPc = "eval"
          /\ should_run(configs[Head(todo)], last_runs[Head(todo)], now) = "raise"
          /\ UNCHANGED <<running, reported>>

\* C10 (SchedSpec): the step in which a job's execution raises leaves the main
\* thread's state, the queue and every other run as they were and frees the
\* worker; the tick loop is ended only by an exception of its own should_run
\* call, never by a job's.
C10_JobFailureContained == [][C10_Step]_vars

\* a job has failed, the other job is executing, and the tick loop goes on
C10_Witness ==
    /\ reported[ConfigFiles[1]]
    /\ running[ConfigFiles[2]] > 0
    /\ tickPc = "stamp"
    /\ now > 0

\* a submission of f is queued or a run of f is executing
InFlight(f) == running[f] > 0 \/ f \in {queue[i] : i \in 1..Len(queue)}

C11_Step ==
    (/\ tickPc = "eval"
     /\ todo # <<>>
     /\ ~configs[Head(todo)].empty
     /\ InFlight(Head(todo))
     /\ should_run(configs[Head(todo)], last_runs[Head(todo)], now) = "True"
     /\ (tickPc' # tickPc \/ todo' # todo))
    => /\ tickPc' = "stamp"
       /\ queue' = Append(queue, Head(todo))

\* C11 (SchedSpec): tick takes no account of the runs in flight: whenever it
\* evaluates a job that is due while an earlier submission of the same job is
\* still queued or executing, its step submits the job once more.
C11_NoMutualExclusion == [][C11_Step]_vars

\* two runs of the job with the interval of one second execute at once; the
\* second was dispatched a full interval after the first, by a later tick
C11_Witness ==
    \E f \in FileNames :
        /\ configs[f] = DocWhole
        /\ running[f] >= 2
        /\ last_runs[f] >= 2

----------------------------------------------------------------------------
\* What the interpolation claims speak of.

\* the text holds no brace at all
Plain(str) == \A i \in 1..Len(str) : str[i] \notin {"{", "}"}

\* C12 as stated (ResolveSpec): a lenient resolve_str call never raises,
\* whatever the text; a text without braces comes back as it is.
C12_LenientNeverRaises ==
    (~strict /\ str_result.st # "pending") =>
        /\ str_result.st = "ok"
        /\ Plain(text) => str_result.out = text

\* C13 as stated (ResolveSpec): a strict resolve_str call either fails with a
\* CollectorError that names a key absent from the merged context, or returns.
C13_StrictFailsOnlyForMissingKey ==
    (strict /\ str_result.st # "pending") =>
        \/ str_result.st = "ok"
        \/ /\ str_result.st = "CollectorError"
           /\ str_result.key \notin Keys(full_ctx(base_context, extra_ctx))

\* what the call on a string leaf came to
LeafResult == resolve_str(base_context, text, extra_ctx, strict)

\* C14 as stated (ResolveSpec): when resolve_dict returns, every string leaf of
\* the new document is the resolve_str of the old one, also inside a sequence,
\* and every other leaf is unchanged.
C14_EveryStringLeafResolved ==
    dict_result.st = "ok" =>
        LET new == dict_result.out
        IN  /\ Item(new, "endpoint") = StrLeaf(LeafResult.out)
            /\ Item(Item(new, "collect"), "node") = StrLeaf(LeafResult.out)
            /\ Item(Item(Item(new, "collect"), "http"), "path") = StrLeaf(LeafResult.out)
            /\ Item(new, "tags") = ListNode(<<StrLeaf(LeafResult.out), IntLeaf(1)>>)
            /\ Item(new, "schema_version") = IntLeaf(1)
            /\ Item(Item(new, "collect"), "retries") = IntLeaf(3)

\* C14 amended (ResolveSpec): resolve_dict raises what resolve_str raises on a
\* string leaf; otherwise it returns a new document with the same keys in the
\* same order, in which every string that is a value of a mapping, at any depth
\* of nested mappings, is resolved, and every other value -- a number, and a
\* sequence with all it contains, strings included -- is the old one.
C14_MappingStringsResolved ==
    dict_result.st # "pending" =>
        IF LeafResult.st # "ok" THEN dict_result = LeafResult
        ELSE dict_result =
               Ok(DictNode(<< <<"endpoint", StrLeaf(LeafResult.out)>>,
                              <<"schema_version", IntLeaf(1)>>,
                              <<"collect",
                                DictNode(<< <<"node", StrLeaf(LeafResult.out)>>,
                                            <<"retries", IntLeaf(3)>>,
                                            <<"http", DictNode(<< <<"path",
                                                StrLeaf(LeafResult.out)>> >>)>> >>)>>,
                              <<"tags", ListNode(<<StrLeaf(text), IntLeaf(1)>>)>> >>))

\* resolve_dict has returned a document whose strings it changed
C14_Witness ==
    /\ dict_result.st = "ok"
    /\ LeafResult.out # text
    /\ Item(Item(Item(dict_result.out, "collect"), "http"), "path") # StrLeaf(text)
    /\ Item(dict_result.out, "tags") = ListNode(<<StrLeaf(text), IntLeaf(1)>>)

\* C15 as stated (CollectSpec): no item ends the run -- the loop reaches the
\* end of the list whatever the items are, and the records fetched are all
\* spooled when the run has finished.
C15_BadItemNeverAbortsBatch ==
    /\ collectPc # "raised"
    /\ (collectPc = "collected" /\ Finished(1)) => Len(written[1]) = Len(fetched)

\* C16 as stated (ConcSpec): on the current date two different job definitions
\* have different blob paths, hence different .parts directories, so that two
\* different jobs running at the same time never share a spool directory.
C16_DistinctJobsDistinctDirs ==
    \A c1 \in Cfgs, c2 \in Cfgs :
        c1 # c2 => build_bronze_path(c1, DateStr(clock.day))
                      # build_bronze_path(c2, DateStr(clock.day))

\* what the flush of worker 1 leaves alone when it returns from its first
\* lines: the local spool, the remote store and the record of remote calls
FlushReturnsAtOnce(fl, fa) ==
    /\ pc'[1] = "idle"
    /\ ret'[1] = Result("returned", fl, fa)
    /\ UNCHANGED <<dirs, files, blobs>>
    /\ trace'[1] = trace[1]

\* every record the run of worker 1 has written is the content of a part
\* file of the run's target
AllSpooled ==
    \A i \in 1..Len(written[1]) :
        \E f \in files : f.dir = blob_path[1] /\ f.data = <<written[1][i]>>

C17_Step ==
    (connStr = "" /\ pc[1] = "f_begin" /\ pc'[1] # "f_begin") => FlushReturnsAtOnce(0, 0)

\* C17 (Spec): with no connection string configured, flush_spool returns
\* (0, 0) without a remote call and without touching a part file or a spool
\* directory; the run completes with every record it wrote still spooled, and
\* the remote store stays empty.
C17_NoConfigIsNoOp ==
    /\ [][C17_Step]_vars
    /\ [](connStr = "" =>
            /\ ret[1].st # "raised"
            /\ \A b \in Paths : blobs[b].kind = "none"
            /\ (pc[1] = "idle" => AllSpooled))

\* a run that spooled a record has completed without configuration
C17_Witness ==
    /\ connStr = ""
    /\ Finished(1)
    /\ written[1] # <<>>
    /\ ret[1] = Result("returned", 0, 0)
    /\ \E f \in files : f.data = <<written[1][1]>>

C19_Step ==
    (connStr = "bad" /\ pc[1] = "f_begin" /\ pc'[1] # "f_begin") => FlushReturnsAtOnce(0, 1)

\* C19 (Spec): when the remote client cannot be constructed, flush_spool
\* returns exactly (0, 1), whatever is spooled, it does not raise, and every
\* part file stays on disk.
C19_ClientFailureIsOneFailure ==
    /\ [][C19_Step]_vars
    /\ [](connStr = "bad" =>
            /\ ret[1].st # "raised"
            /\ (Finished(1) => ret[1] = Result("returned", 0, 1))
            /\ (pc[1] = "idle" => AllSpooled))

\* the client could not be constructed with two parts spooled for the target
C19_Witness ==
    /\ connStr = "bad"
    /\ Finished(1)
    /\ ret[1] = Result("returned", 0, 1)
    /\ Len(ListParts(blob_path[1])) = 2

\* C18 as stated (ForeignSpec): when the object at the target's path is not an
\* append blob, a flush that found parts for the target reports one failure,
\* for the target, appends nothing, and leaves every part on disk.
C18_KindMismatchFailsTarget ==
    (/\ Finished(1)
     /\ blob_path[1] = ForeignPath
     /\ ListParts(ForeignPath) # <<>>)
    => /\ ret[1] = Result("returned", 0, 1)
       /\ blobs[ForeignPath] = ForeignBlobs[ForeignPath]
       /\ AllSpooled

\* C20 as stated (ConcSpec): while a writer and a flush work on the same spool
\* directory, what the flush has read from a part, and is about to append, is
\* one complete record: never the content of a file that is still empty.
C20_FlushReadsOnlyCompleteParts ==
    \A p \in Procs : pc[p] = "f_append" => data[p] # <<>>

\* C21 as stated (ResolveSpec): lenient resolution is idempotent: resolving the
\* result of a lenient resolve_str call again, leniently and with the same
\* context, gives that result again.
C21_LenientIdempotent ==
    (~strict /\ str_result.st = "ok")
    => resolve_str(base_context, str_result.out, extra_ctx, FALSE) = str_result

\* worker 1 is inside flush_spool
InFlush == pc[1] \in {"f_begin", "f_list", "f_cleanup", "f_exists", "f_create",
                      "f_read", "f_append", "f_unlink"}

\* the events of a flush that record a failure
FailureOps == {"ensure_fail", "read_fail", "append_fail", "unlink_fail"}

C22_Step ==
    /\ (InFlush /\ blob_path[1] # None) =>
          \A d \in Paths \ {blob_path[1]} :
              /\ {f \in files' : f.dir = d} = {f \in files : f.dir = d}
              /\ (d \in dirs') = (d \in dirs)
              /\ blobs'[d] = blobs[d]
    /\ (pc[1] = "f_begin" /\ pc'[1] = "f_list" /\ blob_path[1] = None) =>
          /\ Range(parts_dirs'[1]) = dirs
          /\ Len(parts_dirs'[1]) = Cardinality(dirs)

\* C22 (SweepSpec): a flush with a target scans the target's directory only
\* and leaves the part files, the directory and the remote object of every
\* other path unchanged; a flush without a target scans every directory
\* under the root, and when none of its steps failed the root is empty
\* afterwards.
C22_TargetedFlushTouchesOnlyTarget ==
    /\ [][C22_Step]_vars
    /\ []((InFlush /\ blob_path[1] # None) =>
             \A i \in 1..Len(parts_dirs[1]) : parts_dirs[1][i] = blob_path[1])
    /\ []((/\ Finished(1)
           /\ blob_path[1] = None
           /\ connStr = "good"
           /\ \A i \in 1..Len(trace[1]) : trace[1][i].op \notin FailureOps)
          => files = {} /\ dirs = {})

\* a flush without a target has appended the parts of two directories and
\* emptied the root, after a run whose flush of its own target had failed
C22_Witness ==
    /\ Finished(1)
    /\ blob_path[1] = None
    /\ files = {}
    /\ \E m, n \in Range(NamesOf(trace[1], "append_ok")) : m.day # n.day
    /\ Count(prevTrace[1], "append_fail") + Count(prevTrace[1], "ensure_fail") > 0

\* the item template with {id} replaced by the item's value of the configured
\* id field, the other placeholders by the item's own fields
ExpectedUrl(item) ==
    resolve_str(EmptyDict, ItemTemplate,
                Update([i \in 1..Len(item.v) |-> <<item.v[i][1], item.v[i][2].v>>],
                       << <<Id, ItemId(item, id_field).v>> >>),
                TRUE)

\* the items the template can be resolved for: mappings that have the
\* configured id field and every other field the template names
Addressable(item) ==
    /\ item.t = "dict"
    /\ id_field \in Keys(item.v)
    /\ ExpectedUrl(item).st = "ok"

\* C23 as stated (CollectSpec): the first request of a run is the list fetch,
\* and when the loop has ended, every listed item that has the id field was
\* requested exactly once, in list order, at the template with {id} replaced
\* by the item's value of the id field.
C23_OneDetailFetchPerItemInOrder ==
    /\ (requests # <<>> => requests[1] = <<0, ListEndpoint>>)
    /\ \A i \in 2..Len(requests) : requests[i][1] > 0
    /\ \A i, j \in 1..Len(requests) : i < j => requests[i][1] < requests[j][1]
    /\ collectPc = "collected" =>
          \A i \in 1..Len(items) :
              Addressable(items[i]) =>
                  \E k \in 1..Len(requests) :
                      requests[k] = <<i, ExpectedUrl(items[i]).out>>

\* lines 45-49: the base context updated with the runtime context
Merged == IF extra_ctx # EmptyDict THEN Update(base_context, extra_ctx) ELSE base_context

\* {key}
Placeholder(key) == <<"{">> \o key \o <<"}">>

\* the resolve_str call was made on text
Resolved == str_result.st # "pending"

\* lowercase keys that no uppercased key of the merge coincides with
Unshadowed(key) == \A i \in 1..Len(Merged) : Upper(Merged[i][1]) # key

\* the runtime layer wins over the base layer
C24_RuntimeWins ==
    \A i \in 1..Len(extra_ctx) :
        (Resolved /\ text = Placeholder(extra_ctx[i][1]) /\ Unshadowed(extra_ctx[i][1]))
        => str_result = Ok(extra_ctx[i][2])

\* C24 as stated (ResolveSpec): a runtime key overrides the base key, and for
\* every key k of the merged context the placeholder {upper(k)} resolves to
\* the uppercased value of k.
C24_EveryKeyHasUpperPlaceholder ==
    /\ C24_RuntimeWins
    /\ \A i \in 1..Len(Merged) :
          (Resolved /\ text = Placeholder(Upper(Merged[i][1])))
          => str_result = Ok(Upper(Merged[i][2]))

\* C24 amended (ResolveSpec): a runtime key overrides the base key, and for
\* every key k of the merged context that is the last, in the order of the
\* merged context, among the keys with the same uppercase form, the
\* placeholder {upper(k)} resolves to the uppercased value of k.
C24_LastKeyHasUpperPlaceholder ==
    /\ C24_RuntimeWins
    /\ \A i \in 1..Len(Merged) :
          (/\ Resolved
           /\ text = Placeholder(Upper(Merged[i][1]))
           /\ \A j \in (i + 1)..Len(Merged) : Upper(Merged[j][1]) # Upper(Merged[i][1]))
          => str_result = Ok(Upper(Merged[i][2]))

\* {A} was resolved with a and A both in the base context and a overridden at
\* run time: the value is that of the later key, A
C24_Witness ==
    /\ base_context = << <<<<"a">>, <<"x">>>>, <<<<"A">>, <<"y">>>> >>
    /\ extra_ctx = << <<<<"a">>, <<"y">>>> >>
    /\ text = Placeholder(<<"A">>)
    /\ str_result = Ok(<<"Y">>)

\* tick is at a job that is not empty and is due
AtDueJob ==
    /\ tickPc = "eval"
    /\ todo # <<>>
    /\ ~configs[Head(todo)].empty
    /\ should_run(configs[Head(todo)], last_runs[Head(todo)], now) = "True"

C25_Step ==
    /\ (AtDueJob /\ Busy = PoolSize /\ (tickPc' # tickPc \/ todo' # todo)) =>
          /\ queue' = Append(queue, Head(todo))
          /\ tickPc' = "stamp"
          /\ running' = running
    /\ (\E f \in FileNames : running'[f] > running[f]) =>
          /\ Busy < PoolSize
          /\ Busy' = Busy + 1
          /\ Len(queue') = Len(queue) - 1

\* C25 (SchedSpec): never more than PoolSize runs execute; when tick finds a
\* job due while PoolSize runs execute, its step queues the submission and
\* goes on without starting or waiting for anything; and a run starts only
\* in a step that finds fewer than PoolSize runs executing, from the queue.
C25_AtMostPoolSizeRuns ==
    /\ [](Busy <= PoolSize)
    /\ [][C25_Step]_vars

\* tick has just queued a submission behind another one, all workers being
\* busy, and is about to write the timestamp
C25_Witness ==
    /\ Busy = PoolSize
    /\ Len(queue) = MaxQueue
    /\ tickPc = "stamp"
    /\ fresh = "queued"

\* the events that end the handling of one part
PartOps == {"unlink_ok", "read_fail", "append_fail", "unlink_fail"}

\* how many events of t have their op in ops
CountIn(t, ops) == Cardinality({i \in 1..Len(t) : t[i].op \in ops})

\* the names of the parts whose handling has ended, in order
RECURSIVE Outcomes(_)
Outcomes(t) ==
    IF t = <<>> THEN <<>>
    ELSE IF Head(t).op \in PartOps THEN <<Head(t).name>> \o Outcomes(Tail(t))
         ELSE Outcomes(Tail(t))

C26_Step ==
    \* flush_spool returns its counters, and returns rather than raises
    /\ (InFlush /\ pc'[1] = "idle") =>
          /\ ret'[1].st = "returned"
          /\ pc[1] # "f_begin" =>
                ret'[1] = Result("returned", flushed[1], failed[1])
    \* the invocation counts a part flushed exactly in the steps in which it
    \* removes that part's file from the disk
    /\ (pc[1] = "f_unlink" /\ pc'[1] # "f_unlink") =>
          /\ flushed'[1] \in {flushed[1], flushed[1] + 1}
          /\ (flushed'[1] = flushed[1] + 1) <=>
                (/\ FileAt(CurPart(1)[1], CurPart(1)[2]) # {}
                 /\ files \ files' = FileAt(CurPart(1)[1], CurPart(1)[2]))
    /\ (/\ InFlush
        /\ pc[1] \notin {"f_begin", "f_unlink"}
        /\ pc'[1] \notin {"idle", pc[1]}) => flushed'[1] = flushed[1]

\* C26 (SweepSpec): flush_spool returns, never raises, whatever fails for a
\* part; flushedCount is the number of part files the invocation has deleted
\* and failedCount the number of failures it met; and when the loop over the
\* parts of a target whose remote object was ensured has ended, the
\* invocation has counted each part listed for the target exactly once, as
\* flushed or as failed.
C26_CountsAccountForParts ==
    /\ [][C26_Step]_vars
    /\ [](InFlush /\ pc[1] # "f_begin" =>
             /\ flushed[1] = Count(trace[1], "unlink_ok")
             /\ failed[1] = CountIn(trace[1], FailureOps))
    /\ [](pc[1] = "f_cleanup" =>
             LET n == Len(parts[1])
                 o == Outcomes(trace[1])
             IN  /\ Len(o) >= n
                 /\ SubSeq(o, Len(o) - n + 1, Len(o)) = parts[1])
    /\ [](Finished(1) /\ connStr = "good" =>
             /\ ret[1].flushed = Count(trace[1], "unlink_ok")
             /\ ret[1].failed = CountIn(trace[1], FailureOps))

\* a flush of the whole root has returned: it deleted a part, failed on
\* another, which is still on disk, and counted both
C26_Witness ==
    /\ Finished(1)
    /\ blob_path[1] = None
    /\ ret[1].flushed > 0
    /\ ret[1].failed > 0
    /\ files # {}

\* a schedule block that is not a mapping with a numeric interval
Malformed(doc) == ~doc.empty /\ (doc.schedule = "null" \/ doc.interval.type = "str")

C27_Skipped ==
    /\ tickPc = "eval"
    /\ todo # <<>>
    /\ (configs[Head(todo)].empty \/ Malformed(configs[Head(todo)]))
    /\ (tickPc' # tickPc \/ todo' # todo)

\* C27 as stated (SchedSpec): tick never raises, and its step at a file that
\* is empty (or unreadable) or has a malformed schedule block moves on to the
\* next file without a submission and without touching the schedule map.
C27_TickNeverRaises ==
    /\ [](tickPc # "raised")
    /\ [][C27_Skipped => /\ tickPc' = "eval"
                         /\ todo' = Tail(todo)
                         /\ UNCHANGED <<queue, last_runs>>]_vars

====
